---- MODULE Spec2Model ----
(***************************************************************************)
(* Invoice-driven stock reconciliation of src/app.py: the tables products, *)
(* invoices and invoice_items, and the three handlers api_invoice_save,    *)
(* api_invoice_update and api_invoice_delete, one request at a time; then  *)
(* with the clock, with the product routes, and with requests interleaved  *)
(* statement by statement on their own connections.                        *)
(***************************************************************************)
EXTENDS Integers, Sequences, FiniteSets, TLC

\* ------------------------------------------------------------------ bounds
NumProducts == 1        \* rows of products; ids 1..NumProducts
MaxStock    == 1        \* initial on-hand quantity of a product is 0..MaxStock
MaxInvId    == 2        \* cap on the AUTOINCREMENT id of invoices
MaxItems    == 2        \* line items in one request
MaxQty      == 1        \* requested qty is -MaxNeg..MaxQty
MaxNeg      == 1
MaxRows     == 2        \* cap on the rows of invoice_items stored at one time
MaxTotal    == 0        \* caller-supplied header total is 0..MaxTotal
MaxYears    == 1        \* new years the clock may reach after ThisYear
MaxLines    == 1        \* line items in one request of the specifications with a clock or product requests
NumConns    == 2        \* requests served at the same time, each on its own connection
MaxRequests == 2        \* requests one connection slot serves in a run
MaxConcLines == 2       \* line items in one request of the interleaved specification

\* datetime.now().year: one calendar year for the whole run
ThisYear == 2024

ProductIds == 1..NumProducts
InvIds     == 1..MaxInvId
QtyVals    == (0 - MaxNeg)..MaxQty
Totals     == 0..MaxTotal

\* A JSON value of a line item: <<>> is an absent key or null, <<n>> the integer n.
\* product_id ranges over null, 0, the existing ids and one id that names no product.
RawPids == {<<>>} \cup {<<n>> : n \in 0..(NumProducts + 1)}
RawQtys == {<<n>> : n \in QtyVals}
RawItem == [product_id : RawPids, qty : RawQtys]

RECURSIVE SeqsUpTo(_, _)
SeqsUpTo(S, n) ==
    IF n = 0 THEN {<<>>}
    ELSE LET shorter == SeqsUpTo(S, n - 1)
         IN  shorter \cup {Append(s, x) : s \in {t \in shorter : Len(t) = n - 1}, x \in S}

ItemLists == SeqsUpTo(RawItem, MaxItems)

\* ------------------------------------------------------------------- state
VARIABLES
    products,       \* products.qty by product id
    invoices,       \* invoice headers by id: [invoice_no, year, total]
    invoice_items,  \* invoice_items rows [product_id, qty] grouped by invoice_id, in rowid order
    invoices_seq,   \* sqlite_sequence of invoices: the largest id ever assigned
    now_year,       \* datetime.now().year
    req,            \* the last request: endpoint, <inv_id> of the URL, items of the body
    resp,           \* the HTTP response to it
    initial,        \* history: products as first stocked
    issued,         \* history: invoice_no of every successful create, in order
    origin,         \* history: by invoice id, products as they were before its create
    products_seq,   \* sqlite_sequence of products: the highest product id ever given
    dangling,       \* history: by invoice id and row, whether the row named no product
                    \* when it was stored
    conn,           \* by connection, the request it serves: its locals and position
    txn             \* the open write transaction: its owner and its uncommitted tables

vars == <<products, invoices, invoice_items, invoices_seq, now_year, req, resp, initial, issued,
          origin, products_seq, dangling, conn, txn>>
tables == <<products, invoices, invoice_items, invoices_seq>>

\* ----------------------------------------------------------------- helpers
\* a fallback of 1 instead of 0 for a falsy value
IntOr0_FallbackOne(x) == IF x = <<>> \/ x[1] = 0 THEN 1 ELSE x[1]

\* int(x or 0): a falsy value (None, 0) becomes 0
IntOr0(x) == IF x = <<>> \/ x[1] = 0 THEN 0 ELSE x[1]

\* the decimal digits of n >= 0, most significant first
RECURSIVE Digits(_)
Digits(n) == IF n < 10 THEN <<n>> ELSE Append(Digits(n \div 10), n % 10)

\* f"{seq:04d}": at least four digits, zero-padded on the left
RECURSIVE ZeroPad(_, _)
ZeroPad(d, width) == IF Len(d) >= width THEN d ELSE ZeroPad(<<0>> \o d, width)

\* f"INV-{y}-{seq:04d}" as <<y, d1, d2, d3, d4, ...>>
FormatInvoiceNo(y, seq) == <<y>> \o ZeroPad(Digits(seq), 4)

\* the sequence part of an invoice number, read back from its digits
RECURSIVE DigitsValue(_)
DigitsValue(d) == IF d = <<>> THEN 0 ELSE 10 * DigitsValue(SubSeq(d, 1, Len(d) - 1)) + d[Len(d)]
SeqPart(invoice_no) == DigitsValue(Tail(invoice_no))

\* a count of all invoices, the WHERE year=? left out
next_invoice_no_AllYears(inv, y) == FormatInvoiceNo(y, Cardinality(DOMAIN inv) + 1)

\* SELECT COUNT(*) FROM invoices WHERE year=y, then seq = cnt + 1
next_invoice_no(inv, y) ==
    LET cnt == Cardinality({i \in DOMAIN inv : inv[i].year = y})
    IN  FormatInvoiceNo(y, cnt + 1)

\* a stock check that returns after looking at the first line only
StockCheck_FirstLineOnly(items, prods) ==
    IF items = <<>> THEN <<>>
    ELSE LET pid == IntOr0(Head(items).product_id)
             qty == IntOr0(Head(items).qty)
         IN  IF pid # 0 /\ pid \in DOMAIN prods /\ prods[pid] < qty
             THEN <<pid, prods[pid], qty>>
             ELSE <<>>

\* a stock check with the comparison turned round
RECURSIVE StockCheck_Inverted(_, _)
StockCheck_Inverted(items, prods) ==
    IF items = <<>> THEN <<>>
    ELSE LET pid == IntOr0(Head(items).product_id)
             qty == IntOr0(Head(items).qty)
         IN  IF pid # 0 /\ pid \in DOMAIN prods /\ prods[pid] > qty
             THEN <<pid, prods[pid], qty>>
             ELSE StockCheck_Inverted(Tail(items), prods)

\* a stock check that also rejects a line asking for exactly what is there
RECURSIVE StockCheck_LessOrEqual(_, _)
StockCheck_LessOrEqual(items, prods) ==
    IF items = <<>> THEN <<>>
    ELSE LET pid == IntOr0(Head(items).product_id)
             qty == IntOr0(Head(items).qty)
         IN  IF pid # 0 /\ pid \in DOMAIN prods /\ prods[pid] <= qty
             THEN <<pid, prods[pid], qty>>
             ELSE StockCheck_LessOrEqual(Tail(items), prods)

\* The stock check loop: <<>> when every line passes, else <<pid, have, need>> of
\* the first line whose product exists and has less than the requested qty.
RECURSIVE StockCheck(_, _)
StockCheck(items, prods) ==
    IF items = <<>> THEN <<>>
    ELSE LET pid == IntOr0(Head(items).product_id)
             qty == IntOr0(Head(items).qty)
         IN  IF pid # 0 /\ pid \in DOMAIN prods /\ prods[pid] < qty
             THEN <<pid, prods[pid], qty>>
             ELSE StockCheck(Tail(items), prods)

\* an apply loop that takes one unit per line instead of the line's qty
RECURSIVE ApplyItems_OneUnit(_, _)
ApplyItems_OneUnit(items, prods) ==
    IF items = <<>> THEN prods
    ELSE LET pid == IntOr0(Head(items).product_id)
             next == IF pid # 0 /\ pid \in DOMAIN prods
                     THEN [prods EXCEPT ![pid] = @ - 1]
                     ELSE prods
         IN  ApplyItems_OneUnit(Tail(items), next)

\* UPDATE products SET qty = qty - ? WHERE id=? for every line with a truthy pid
RECURSIVE ApplyItems(_, _)
ApplyItems(items, prods) ==
    IF items = <<>> THEN prods
    ELSE LET pid == IntOr0(Head(items).product_id)
             qty == IntOr0(Head(items).qty)
             next == IF pid # 0 /\ pid \in DOMAIN prods
                     THEN [prods EXCEPT ![pid] = @ - qty]
                     ELSE prods
         IN  ApplyItems(Tail(items), next)

\* the invoice_items rows inserted for the lines of a request
ItemRows(items) ==
    [k \in 1..Len(items) |->
        [product_id |-> IntOr0(items[k].product_id), qty |-> IntOr0(items[k].qty)]]

\* a reversal that credits nothing back
RestoreStock_NoCredit(rows, prods) == prods

\* UPDATE products SET qty = qty + ? WHERE id=? for every stored row with a truthy product_id
RECURSIVE RestoreStock(_, _)
RestoreStock(rows, prods) ==
    IF rows = <<>> THEN prods
    ELSE LET r == Head(rows)
             next == IF r.product_id # 0 /\ r.product_id \in DOMAIN prods
                     THEN [prods EXCEPT ![r.product_id] = @ + r.qty]
                     ELSE prods
         IN  RestoreStock(Tail(rows), next)

\* a close that commits what is pending
close_connection_Commits(db, pending) == pending

\* db.close() at teardown: what was not committed is dropped
close_connection(db, pending) == db

\* a commit where the rollback belongs: the pending writes are kept
Rollback_KeepPending(before, pending) == pending

\* db.rollback(): the tables as they were when the transaction began
Rollback(before, pending) == before

\* an UPDATE invoices without its WHERE id=?: every header takes the new fields
UpdateHeader_AllRows(inv, inv_id, total) ==
    [i \in DOMAIN inv |-> [inv[i] EXCEPT !.total = total]]

\* UPDATE invoices SET customer_name=?, customer_phone=?, date=?, total=? WHERE id=?
\* (total stands for the four caller-supplied fields)
UpdateHeader(inv, inv_id, total) ==
    [i \in DOMAIN inv |-> IF i = inv_id THEN [inv[i] EXCEPT !.total = total] ELSE inv[i]]

Request(op, inv_id, items) == [op |-> op, inv_id |-> inv_id, items |-> items]

\* jsonify(...), status: id and invoice_no of a created invoice, or the short line
\* named by the error message
Response(status, id, invoice_no, err) ==
    [status |-> status, id |-> id, invoice_no |-> invoice_no, err |-> err]

\* no write transaction is open
NoTxn == [owner |-> 0, db |-> <<>>]

\* a connection that serves no request
Idle == [op |-> "none", inv_id |-> 0, items |-> <<>>, bad |-> 0, pc |-> "idle", k |-> 0,
         old |-> <<>>, read |-> <<>>, invoice_no |-> <<>>, invoice_id |-> 0, status |-> 0,
         n |-> 0]

\* -------------------------------------------------------------------- init
Init ==
    /\ products \in [ProductIds -> 0..MaxStock]
    /\ initial = products
    /\ invoices = <<>>
    /\ invoice_items = [i \in InvIds |-> <<>>]
    /\ invoices_seq = 0
    /\ now_year = ThisYear
    /\ req = Request("none", 0, <<>>)
    /\ resp = Response(0, 0, <<>>, <<>>)
    /\ issued = <<>>
    /\ origin = <<>>
    /\ products_seq = NumProducts
    /\ dangling = [i \in InvIds |-> <<>>]
    /\ conn = [c \in 1..NumConns |-> Idle]
    /\ txn = NoTxn

\* ----------------------------------------------------------------- actions
\* POST /api/invoice/save
api_invoice_save(total, items) ==
    /\ invoices_seq < MaxInvId
    /\ req' = Request("save", 0, items)
    /\ LET invoice_no == next_invoice_no(invoices, now_year)
           short == StockCheck(items, products)
           invoice_id == invoices_seq + 1
       IN  IF short # <<>>
           THEN /\ resp' = Response(400, 0, <<>>, short)
                /\ UNCHANGED <<tables, issued>>
           ELSE /\ invoices' = (invoice_id :> [invoice_no |-> invoice_no,
                                               year |-> now_year,
                                               total |-> total]) @@ invoices
                /\ invoices_seq' = invoice_id
                /\ invoice_items' = [invoice_items EXCEPT
                                        ![invoice_id] = @ \o ItemRows(items)]
                /\ products' = ApplyItems(items, products)
                /\ resp' = Response(200, invoice_id, invoice_no, <<>>)
                /\ issued' = Append(issued, invoice_no)
    /\ UNCHANGED <<now_year, initial>>

\* POST /api/invoice/update/<inv_id>
api_invoice_update(inv_id, total, items) ==
    /\ req' = Request("update", inv_id, items)
    /\ LET old_items == invoice_items[inv_id]
           restored == RestoreStock(old_items, products)
           cleared == [invoice_items EXCEPT ![inv_id] = <<>>]
           short == StockCheck(items, restored)
       IN  IF short # <<>>
           THEN /\ products' = Rollback(products, restored)
                /\ invoice_items' = Rollback(invoice_items, cleared)
                /\ UNCHANGED <<invoices, invoices_seq>>
                /\ resp' = Response(400, 0, <<>>, short)
           ELSE /\ products' = ApplyItems(items, restored)
                /\ invoice_items' = [cleared EXCEPT ![inv_id] = ItemRows(items)]
                /\ invoices' = UpdateHeader(invoices, inv_id, total)
                /\ UNCHANGED invoices_seq
                /\ resp' = Response(200, 0, <<>>, <<>>)
    /\ UNCHANGED <<now_year, initial, issued>>

\* POST /api/invoice/delete/<inv_id>
api_invoice_delete(inv_id) ==
    /\ req' = Request("delete", inv_id, <<>>)
    /\ products' = RestoreStock(invoice_items[inv_id], products)
    /\ invoice_items' = [invoice_items EXCEPT ![inv_id] = <<>>]
    /\ invoices' = [i \in DOMAIN invoices \ {inv_id} |-> invoices[i]]
    /\ resp' = Response(200, 0, <<>>, <<>>)
    /\ UNCHANGED <<invoices_seq, now_year, initial, issued>>

\* rows of invoice_items stored for the invoice ids 1..n other than inv_id
RECURSIVE RowsOfOthers(_, _)
RowsOfOthers(inv_id, n) ==
    IF n = 0 THEN 0
    ELSE (IF n = inv_id THEN 0 ELSE Len(invoice_items[n])) + RowsOfOthers(inv_id, n - 1)

\* the item lists a request may carry while room rows of invoice_items are free
ItemListsWithin == [room \in 0..MaxRows |-> {l \in ItemLists : Len(l) <= room}]

\* what the invoice requests leave alone where no such history is kept
history == <<origin, products_seq, dangling, conn, txn>>

Save == \E total \in Totals, items \in ItemListsWithin[MaxRows - RowsOfOthers(0, MaxInvId)] :
            api_invoice_save(total, items) /\ UNCHANGED history
Update == \E inv_id \in InvIds, total \in Totals :
              \E items \in ItemListsWithin[MaxRows - RowsOfOthers(inv_id, MaxInvId)] :
                  api_invoice_update(inv_id, total, items) /\ UNCHANGED history
Delete == \E inv_id \in InvIds : api_invoice_delete(inv_id) /\ UNCHANGED history

Next == Save \/ Update \/ Delete

Spec == Init /\ [][Next]_vars

\* ------------------------------------------- the requests over several years
\* Requests of at most MaxLines lines, each free text or MaxQty of an existing
\* product, header totals of two values, and a clock.
LineItem   == [product_id : {<<>>} \cup {<<n>> : n \in ProductIds}, qty : {<<MaxQty>>}]
LineLists  == SeqsUpTo(LineItem, MaxLines)
TotalsWide == 0..(MaxTotal + 1)

\* datetime.now().year moves on to the next year
Tick ==
    /\ now_year < ThisYear + MaxYears
    /\ now_year' = now_year + 1
    /\ UNCHANGED <<tables, req, resp, initial, issued, history>>

SaveLine == \E total \in TotalsWide, items \in LineLists :
                api_invoice_save(total, items) /\ UNCHANGED history
UpdateLine == \E inv_id \in InvIds, total \in TotalsWide, items \in LineLists :
                  api_invoice_update(inv_id, total, items) /\ UNCHANGED history

NextClock == SaveLine \/ UpdateLine \/ Delete \/ Tick

SpecClock == Init /\ [][NextClock]_vars

\* ------------------------------------- the requests with the history of creates
\* origin after a request on invoice id: the entry of id is set by its create and
\* dropped by its delete; the entries of the other invoices are dropped when the
\* request changed a product's quantity.
OriginAfter(id, created, deleted) ==
    LET others == IF products' = products THEN DOMAIN origin \ {id} ELSE {}
        own    == IF created \/ (id \in DOMAIN origin /\ ~deleted) THEN {id} ELSE {}
    IN  [i \in others \cup own |-> IF i = id /\ created THEN products ELSE origin[i]]

SaveRound == \E items \in LineLists :
                 /\ api_invoice_save(0, items)
                 /\ origin' = IF resp'.status = 200
                              THEN OriginAfter(resp'.id, TRUE, FALSE)
                              ELSE origin
                 /\ UNCHANGED <<products_seq, dangling, conn, txn>>
UpdateRound == \E inv_id \in InvIds, items \in LineLists :
                   /\ api_invoice_update(inv_id, 0, items)
                   /\ origin' = OriginAfter(inv_id, FALSE, FALSE)
                   /\ UNCHANGED <<products_seq, dangling, conn, txn>>
DeleteRound == \E inv_id \in InvIds :
                   /\ api_invoice_delete(inv_id)
                   /\ origin' = OriginAfter(inv_id, FALSE, TRUE)
                   /\ UNCHANGED <<products_seq, dangling, conn, txn>>

NextRound == SaveRound \/ UpdateRound \/ DeleteRound

SpecRound == Init /\ [][NextRound]_vars

\* ------------------------------------- the requests with the product catalogue
MaxAdds == 1

CatIds   == 1..(NumProducts + MaxAdds)
CatItem  == [product_id : {<<n>> : n \in CatIds}, qty : {<<MaxQty>>}]
CatLists == SeqsUpTo(CatItem, MaxLines)

\* POST /api/product/add: AUTOINCREMENT gives the id after the highest ever given
api_product_add(qty) ==
    /\ products_seq < NumProducts + MaxAdds
    /\ req' = Request("product_add", 0, <<>>)
    /\ LET id == products_seq + 1
       IN  /\ products' = (id :> qty) @@ products
           /\ products_seq' = id
    /\ resp' = Response(200, 0, <<>>, <<>>)
    /\ UNCHANGED <<invoices, invoice_items, invoices_seq, now_year, initial, issued,
                   origin, dangling, conn, txn>>

\* POST /api/product/delete
api_product_delete(pid) ==
    /\ req' = Request("product_delete", 0, <<>>)
    /\ products' = [p \in DOMAIN products \ {pid} |-> products[p]]
    /\ resp' = Response(200, 0, <<>>, <<>>)
    /\ UNCHANGED <<invoices, invoice_items, invoices_seq, now_year, initial, issued,
                   origin, products_seq, dangling, conn, txn>>

\* by line, whether its product_id names no product of the table
DanglingFlags(items) ==
    [k \in 1..Len(items) |-> LET pid == IntOr0(items[k].product_id)
                             IN  pid # 0 /\ pid \notin DOMAIN products]

SaveCat == \E items \in CatLists :
               /\ api_invoice_save(0, items)
               /\ dangling' = IF resp'.status = 200
                              THEN [dangling EXCEPT ![resp'.id] = @ \o DanglingFlags(items)]
                              ELSE dangling
               /\ UNCHANGED <<origin, products_seq, conn, txn>>
UpdateCat == \E inv_id \in InvIds, items \in CatLists :
                 /\ api_invoice_update(inv_id, 0, items)
                 /\ dangling' = IF resp'.status = 200
                                THEN [dangling EXCEPT ![inv_id] = DanglingFlags(items)]
                                ELSE dangling
                 /\ UNCHANGED <<origin, products_seq, conn, txn>>
DeleteCat == \E inv_id \in InvIds :
                 /\ api_invoice_delete(inv_id)
                 /\ dangling' = [dangling EXCEPT ![inv_id] = <<>>]
                 /\ UNCHANGED <<origin, products_seq, conn, txn>>
ProductAdd == \E qty \in 0..MaxStock : api_product_add(qty)
ProductDelete == \E pid \in CatIds : api_product_delete(pid)

NextCat == SaveCat \/ UpdateCat \/ DeleteCat \/ ProductAdd \/ ProductDelete

SpecCat == Init /\ [][NextCat]_vars

\* --------------------------- requests interleaved statement by statement
\* Each request runs on its own sqlite3 connection (get_db). A SELECT outside a
\* transaction reads the committed tables; the first INSERT/UPDATE/DELETE opens the
\* connection's transaction and takes the database's write lock, held until commit,
\* rollback or close; a connection reads its own uncommitted writes.
Conns     == 1..NumConns
ConcItem  == [product_id : {<<n>> : n \in ProductIds}, qty : {<<MaxQty>>}]
ConcLists == SeqsUpTo(ConcItem, MaxConcLines)

\* the committed tables
Db == [products |-> products, invoices |-> invoices,
       invoice_items |-> invoice_items, invoices_seq |-> invoices_seq]

\* the tables as connection c reads them
View(c) == IF txn.owner = c THEN txn.db ELSE Db

\* connection c may write: no other connection holds the write lock
MayWrite(c) == txn.owner \in {0, c}

Install(d) ==
    /\ products' = d.products
    /\ invoices' = d.invoices
    /\ invoice_items' = d.invoice_items
    /\ invoices_seq' = d.invoices_seq

\* creates that have not responded yet
SavesInFlight == Cardinality({d \in Conns : conn[d].op = "save" /\ conn[d].pc # "done"})

Sequential == <<now_year, req, resp, initial, issued, origin, products_seq, dangling>>

\* the request arrives; save reads next_invoice_no, update and delete SELECT the
\* stored rows of inv_id. bad is the line whose price float() cannot coerce (0: none)
Begin(c, op, inv_id, items, bad) ==
    /\ conn[c].pc \in {"idle", "done"}
    /\ conn[c].n < MaxRequests
    /\ op = "save" => invoices_seq + SavesInFlight < MaxInvId
    /\ LET old == IF op = "save" THEN <<>> ELSE invoice_items[inv_id]
           pc  == CASE op = "save"   -> IF items = <<>> THEN "header" ELSE "check"
                    [] old # <<>>    -> "restore"
                    [] op = "update" -> "clear"
                    [] OTHER         -> "remove"
       IN  conn' = [conn EXCEPT ![c] =
                       [op |-> op, inv_id |-> inv_id, items |-> items, bad |-> bad,
                        pc |-> pc, k |-> 1, old |-> old, read |-> <<>>,
                        invoice_no |-> IF op = "save"
                                       THEN next_invoice_no(invoices, now_year) ELSE <<>>,
                        invoice_id |-> 0, status |-> 0, n |-> conn[c].n + 1]]
    /\ UNCHANGED <<tables, txn, Sequential>>

\* one turn of the stock check loop: SELECT qty of the line's product and compare
CheckLine(c) ==
    /\ conn[c].pc = "check"
    /\ LET r     == conn[c]
           it    == r.items[r.k]
           pid   == IntOr0(it.product_id)
           prods == View(c).products
           have  == IF pid # 0 /\ pid \in DOMAIN prods THEN <<prods[pid]>> ELSE <<>>
           short == StockCheck(<<it>>, prods)
           last  == r.k = Len(r.items)
       IN  IF short # <<>>
           THEN /\ conn' = [conn EXCEPT ![c].pc = "done", ![c].status = 400,
                                        ![c].read = Append(@, have)]
                /\ Install(IF txn.owner = c THEN Rollback(Db, txn.db) ELSE Db)
                /\ txn' = IF txn.owner = c THEN NoTxn ELSE txn
           ELSE /\ conn' = [conn EXCEPT ![c].read = Append(@, have),
                                        ![c].k = IF last THEN 1 ELSE r.k + 1,
                                        ![c].pc = IF ~last THEN "check"
                                                  ELSE IF r.op = "save" THEN "header"
                                                  ELSE "apply"]
                /\ UNCHANGED <<tables, txn>>
    /\ UNCHANGED Sequential

\* save: INSERT INTO invoices; update: UPDATE invoices ... WHERE id=?
WriteHeader(c) ==
    /\ conn[c].pc = "header"
    /\ MayWrite(c)
    /\ LET r  == conn[c]
           v  == View(c)
           id == v.invoices_seq + 1
       IN  IF r.op = "save"
           THEN /\ txn' = [owner |-> c,
                           db |-> [v EXCEPT !.invoices = (id :> [invoice_no |-> r.invoice_no,
                                                                 year |-> now_year,
                                                                 total |-> 0]) @@ @,
                                            !.invoices_seq = id]]
                /\ conn' = [conn EXCEPT ![c].invoice_id = id,
                                        ![c].pc = IF r.items = <<>> THEN "commit" ELSE "apply"]
           ELSE /\ txn' = [owner |-> c,
                           db |-> [v EXCEPT !.invoices = UpdateHeader(@, r.inv_id, 0)]]
                /\ conn' = [conn EXCEPT ![c].pc = "commit"]
    /\ UNCHANGED <<tables, Sequential>>

\* one turn of the insert loop: INSERT INTO invoice_items, UPDATE products qty - ?
ApplyLine(c) ==
    /\ conn[c].pc = "apply"
    /\ conn[c].bad # conn[c].k
    /\ MayWrite(c)
    /\ LET r    == conn[c]
           v    == View(c)
           id   == IF r.op = "save" THEN r.invoice_id ELSE r.inv_id
           it   == r.items[r.k]
           last == r.k = Len(r.items)
       IN  /\ txn' = [owner |-> c,
                      db |-> [v EXCEPT !.invoice_items[id] = @ \o ItemRows(<<it>>),
                                       !.products = ApplyItems(<<it>>, @)]]
           /\ conn' = [conn EXCEPT ![c].k = r.k + 1,
                                   ![c].pc = IF ~last THEN "apply"
                                             ELSE IF r.op = "save" THEN "commit"
                                             ELSE "header"]
    /\ UNCHANGED <<tables, Sequential>>

\* one turn of the re-credit loop over the rows fetched at the start:
\* UPDATE products qty + ? when the row has a product_id
RestoreRow(c) ==
    /\ conn[c].pc = "restore"
    /\ LET r    == conn[c]
           v    == View(c)
           row  == r.old[r.k]
           last == r.k = Len(r.old)
       IN  /\ IF row.product_id # 0
              THEN /\ MayWrite(c)
                   /\ txn' = [owner |-> c,
                              db |-> [v EXCEPT !.products = RestoreStock(<<row>>, @)]]
              ELSE UNCHANGED txn
           /\ conn' = [conn EXCEPT ![c].k = IF last THEN 1 ELSE r.k + 1,
                                   ![c].pc = IF ~last THEN "restore"
                                             ELSE IF r.op = "update" THEN "clear"
                                             ELSE "remove"]
    /\ UNCHANGED <<tables, Sequential>>

\* update: DELETE FROM invoice_items WHERE invoice_id=?
ClearRows(c) ==
    /\ conn[c].pc = "clear"
    /\ MayWrite(c)
    /\ LET r == conn[c]
           v == View(c)
       IN  /\ txn' = [owner |-> c, db |-> [v EXCEPT !.invoice_items[r.inv_id] = <<>>]]
           /\ conn' = [conn EXCEPT ![c].pc = IF r.items = <<>> THEN "header" ELSE "check"]
    /\ UNCHANGED <<tables, Sequential>>

\* delete: DELETE FROM invoice_items WHERE invoice_id=?; DELETE FROM invoices WHERE id=?
RemoveInvoice(c) ==
    /\ conn[c].pc = "remove"
    /\ MayWrite(c)
    /\ LET r == conn[c]
           v == View(c)
       IN  /\ txn' = [owner |-> c,
                      db |-> [v EXCEPT !.invoice_items[r.inv_id] = <<>>,
                                       !.invoices = [i \in DOMAIN @ \ {r.inv_id} |-> @[i]]]]
           /\ conn' = [conn EXCEPT ![c].pc = "commit"]
    /\ UNCHANGED <<tables, Sequential>>

\* db.commit() and the 200 response
Commit(c) ==
    /\ conn[c].pc = "commit"
    /\ txn.owner = c
    /\ Install(txn.db)
    /\ txn' = NoTxn
    /\ conn' = [conn EXCEPT ![c].pc = "done", ![c].status = 200]
    /\ UNCHANGED Sequential

\* float() raises on the price of line bad, in the insert loop, before the line's
\* INSERT: the request ends with 500 and teardown closes the connection
Fault(c) ==
    /\ conn[c].pc = "apply"
    /\ conn[c].bad = conn[c].k
    /\ Install(close_connection(Db, View(c)))
    /\ txn' = IF txn.owner = c THEN NoTxn ELSE txn
    /\ conn' = [conn EXCEPT ![c].pc = "done", ![c].status = 500]
    /\ UNCHANGED Sequential

\* a write waits for the write lock of another connection longer than the
\* connection's timeout: sqlite3.OperationalError, 500, nothing of its own written
BusyTimeout(c) ==
    /\ conn[c].pc \in {"header", "restore", "clear", "remove"}
    /\ conn[c].pc = "restore" => conn[c].old[conn[c].k].product_id # 0
    /\ ~MayWrite(c)
    /\ conn' = [conn EXCEPT ![c].pc = "done", ![c].status = 500]
    /\ UNCHANGED <<tables, txn, Sequential>>

Arrive == \E c \in Conns, op \in {"save", "update", "delete"}, inv_id \in InvIds,
             items \in ConcLists :
             \E bad \in 0..Len(items) :
                 /\ op = "delete" => items = <<>>
                 /\ op = "save" => inv_id = 1
                 /\ Begin(c, op, IF op = "save" THEN 0 ELSE inv_id, items, bad)
Step == \E c \in Conns :
            \/ CheckLine(c)
            \/ WriteHeader(c)
            \/ ApplyLine(c)
            \/ RestoreRow(c)
            \/ ClearRows(c)
            \/ RemoveInvoice(c)
            \/ Commit(c)
            \/ Fault(c)
            \/ BusyTimeout(c)

NextConc == Arrive \/ Step

SpecConc == Init /\ [][NextConc]_vars

\* Reversals of stored invoices interleaved with each other only: a create arrives
\* when no request is in flight, no request arrives while a create is in flight,
\* and an update or delete names an invoice that is stored when it arrives.
ArriveReversal ==
    \E c \in Conns, op \in {"save", "update", "delete"}, inv_id \in InvIds,
       items \in ConcLists :
        \E bad \in 0..Len(items) :
            /\ op = "delete" => items = <<>>
            /\ op = "save" => inv_id = 1 /\ \A d \in Conns : conn[d].pc \in {"idle", "done"}
            /\ op # "save" => inv_id \in DOMAIN invoices
            /\ SavesInFlight = 0
            /\ Begin(c, op, IF op = "save" THEN 0 ELSE inv_id, items, bad)

NextReversal == ArriveReversal \/ Step

SpecReversal == Init /\ [][NextReversal]_vars

\* ------------------------------------------------------------ properties
\* the sum of qty over the rows that reference product p
RECURSIVE SumQty(_, _)
SumQty(rows, p) ==
    IF rows = <<>> THEN 0
    ELSE (IF Head(rows).product_id = p THEN Head(rows).qty ELSE 0) + SumQty(Tail(rows), p)

\* the sum of qty over all rows of invoice_items, of invoice ids 1..n, that reference p
RECURSIVE StoredQty(_, _)
StoredQty(p, n) == IF n = 0 THEN 0 ELSE SumQty(invoice_items[n], p) + StoredQty(p, n - 1)

\* the sum of qty over the lines of a request whose product_id is the integer p
RECURSIVE RequestedQty(_, _)
RequestedQty(items, p) ==
    IF items = <<>> THEN 0
    ELSE (IF Head(items).product_id = <<p>> /\ Head(items).qty # <<>>
          THEN Head(items).qty[1] ELSE 0) + RequestedQty(Tail(items), p)

\* a line without a product reference: product_id absent, null or 0
FreeText(it) == it.product_id = <<>> \/ it.product_id = <<0>>

\* line k of items asks for more of an existing product than stock holds of it
ShortAt(items, k, stock) ==
    /\ ~FreeText(items[k])
    /\ items[k].product_id[1] \in DOMAIN stock
    /\ items[k].qty # <<>>
    /\ items[k].qty[1] > stock[items[k].product_id[1]]

HasShortLine(items, stock) == \E k \in 1..Len(items) : ShortAt(items, k, stock)

\* stock as it stands once the rows of invoice inv_id are credited back
Recredited(inv_id) ==
    [p \in DOMAIN products |-> products[p] + SumQty(invoice_items[inv_id], p)]

\* the rows that reference a product
ProductRows(rows) == SelectSeq(rows, LAMBDA r : r.product_id # 0)

\* C1: stock conservation. After any sequence of create, update and delete requests,
\* accepted or rejected, every product's quantity is its initial quantity minus the
\* sum of qty over the invoice_items rows now stored that reference it.
C1_StockConservation ==
    \A p \in DOMAIN products : products[p] = initial[p] - StoredQty(p, MaxInvId)

\* a rejected update that left rows holding stock of a product
C1_Witness ==
    /\ req.op = "update"
    /\ resp.status = 400
    /\ \E p \in DOMAIN products : StoredQty(p, MaxInvId) > 0

\* C2: stock never goes negative through invoice application, for any line items and
\* any integer quantities, several lines on one product included.
C2_StockNeverNegative == \A p \in DOMAIN products : products[p] >= 0

\* C3: a create request with a line whose qty exceeds the current quantity of the
\* existing product it references is answered 400 and leaves products, invoices and
\* invoice_items as they were, wherever the line stands in the list.
C3_CreateAllOrNothing ==
    [][(req'.op = "save" /\ HasShortLine(req'.items, products))
          => (resp'.status = 400 /\ UNCHANGED tables)]_vars

\* a create rejected for its second line, the first being a line that passes
C3_Witness ==
    /\ req.op = "save"
    /\ resp.status = 400
    /\ Len(req.items) = 2
    /\ ~ShortAt(req.items, 1, products)
    /\ ShortAt(req.items, 2, products)

\* C4: within one year the sequence part of the invoice number of each successful
\* create is greater than that of every earlier one, and no two stored invoices
\* carry the same invoice_no.
C4_InvoiceNoUniqueIncreasing ==
    /\ \A i, j \in DOMAIN invoices :
           i # j => invoices[i].invoice_no # invoices[j].invoice_no
    /\ \A a, b \in 1..Len(issued) :
           (a < b /\ issued[a][1] = issued[b][1]) => SeqPart(issued[a]) < SeqPart(issued[b])

\* C5: an update whose new lines fail validation against the re-credited stock is
\* answered 400 and leaves the header, the old item rows and every product's
\* quantity as they were before the update.
C5_UpdateAllOrNothing ==
    [][(req'.op = "update" /\ HasShortLine(req'.items, Recredited(req'.inv_id)))
          => (resp'.status = 400 /\ UNCHANGED tables)]_vars

\* a rejected update of an existing invoice whose old rows hold stock
C5_Witness ==
    /\ req.op = "update"
    /\ resp.status = 400
    /\ req.inv_id \in DOMAIN invoices
    /\ \E p \in DOMAIN products : SumQty(invoice_items[req.inv_id], p) # 0

\* the request keeps the lines and products of the stored rows and raises no qty
Reducing(items, rows) ==
    /\ Len(items) = Len(rows)
    /\ \A k \in 1..Len(items) :
           /\ IntOr0(items[k].product_id) = rows[k].product_id
           /\ IntOr0(items[k].qty) <= rows[k].qty

\* C6: an update of an existing invoice that keeps its lines and products and gives
\* every line a qty no greater than the recorded one is never rejected.
C6_ReducingUpdateSucceeds ==
    [][(/\ req'.op = "update"
        /\ req'.inv_id \in DOMAIN invoices
        /\ Reducing(req'.items, invoice_items[req'.inv_id]))
          => resp'.status = 200]_vars

\* C7: deleting an id that has no invoice (a second delete included) changes no
\* product quantity, no header and no item row.
C7_DeleteAbsentIsNoop ==
    [][(req'.op = "delete" /\ req'.inv_id \notin DOMAIN invoices)
          => UNCHANGED tables]_vars

\* C8: every row of invoice_items has the invoice_id of a row of invoices, whatever
\* ids update and delete were called with.
C8_ItemsBelongToInvoice ==
    \A i \in InvIds : invoice_items[i] # <<>> => i \in DOMAIN invoices

\* C9: for an existing invoice whose only product line has qty a on product p with
\* stock s, an update to qty b on p succeeds exactly when b <= s + a, and then p's
\* stock is s + a - b; a rejected one leaves it at s.
C9_UpdateValidatesAfterRecredit ==
    [][(req'.op = "update" /\ req'.inv_id \in DOMAIN invoices)
          => LET old == ProductRows(invoice_items[req'.inv_id])
                 new == ProductRows(ItemRows(req'.items))
             IN  (/\ Len(old) = 1
                  /\ Len(new) = 1
                  /\ old[1].product_id = new[1].product_id
                  /\ old[1].product_id \in DOMAIN products)
                     => LET p == old[1].product_id
                            s == products[p]
                            a == old[1].qty
                            b == new[1].qty
                        IN  /\ resp'.status = 200 <=> b <= s + a
                            /\ resp'.status = 200 => products'[p] = s + a - b
                            /\ resp'.status # 200 =>
                                   (resp'.status = 400 /\ products'[p] = s)]_vars

\* a successful update of an existing invoice to one product line that takes the
\* last unit of stock
C9_Witness ==
    /\ req.op = "update"
    /\ resp.status = 200
    /\ req.inv_id \in DOMAIN invoices
    /\ LET rows == ProductRows(invoice_items[req.inv_id])
       IN  /\ Len(rows) = 1
           /\ rows[1].product_id \in DOMAIN products
           /\ rows[1].qty > 0
           /\ products[rows[1].product_id] = 0

\* C10: a line without a product reference is never validated against stock and
\* changes no product's quantity on create, update or delete: a request of such
\* lines only is accepted, an accepted request moves each product by the rows
\* credited back minus the lines that name it, a rejected one by nothing and for a
\* line that names a product, and the free-text lines are stored as rows.
C10_FreeTextNeverTouchesStock ==
    [][req'.op \in {"save", "update", "delete"}
          => /\ (\A k \in 1..Len(req'.items) : FreeText(req'.items[k]))
                    => resp'.status = 200
             /\ resp'.status = 400 => resp'.err[1] \in DOMAIN products
             /\ \A p \in DOMAIN products :
                    LET credited == IF req'.op = "save" THEN 0
                                    ELSE SumQty(invoice_items[req'.inv_id], p)
                    IN  products'[p] =
                            IF resp'.status = 200
                            THEN products[p] + credited - RequestedQty(req'.items, p)
                            ELSE products[p]
             /\ (resp'.status = 200 /\ req'.op # "delete")
                    => LET id == IF req'.op = "save" THEN resp'.id ELSE req'.inv_id
                           rows == invoice_items'[id]
                           base == Len(rows) - Len(req'.items)
                       IN  \A k \in 1..Len(req'.items) :
                               FreeText(req'.items[k]) =>
                                   (/\ rows[base + k].product_id = 0
                                    /\ rows[base + k].qty = req'.items[k].qty[1])]_vars

\* an accepted create with a free-text line that asks for more than any product holds
C10_Witness ==
    /\ req.op = "save"
    /\ resp.status = 200
    /\ \E k \in 1..Len(req.items) :
           /\ FreeText(req.items[k])
           /\ \A p \in DOMAIN products : req.items[k].qty[1] > products[p]

\* the position of the first short line of items, 0 when there is none
FirstShort(items, stock) ==
    IF HasShortLine(items, stock)
    THEN CHOOSE k \in 1..Len(items) :
             ShortAt(items, k, stock) /\ \A j \in 1..(k - 1) : ~ShortAt(items, j, stock)
    ELSE 0

\* C12: a create or update is rejected with 400 exactly when some line references
\* an existing product whose quantity at validation time (for update: after the old
\* rows were credited back) is less than the line's qty; the message names the
\* first such line in request order: its product, the quantity available and the
\* quantity requested. Any other create or update is answered 200, and so is
\* every delete.
C12_InsufficientStockExactly ==
    [][/\ req'.op \in {"save", "update"}
          => LET stock == IF req'.op = "update" THEN Recredited(req'.inv_id) ELSE products
                 k == FirstShort(req'.items, stock)
             IN  /\ resp'.status = 400 <=> k # 0
                 /\ resp'.status # 400 => resp'.status = 200
                 /\ k # 0 => resp'.err = <<req'.items[k].product_id[1],
                                          stock[req'.items[k].product_id[1]],
                                          req'.items[k].qty[1]>>
       /\ req'.op = "delete" => resp'.status = 200]_vars

\* a rejected update of a stored invoice whose message gives the quantity available
\* after the old rows were credited back, which is not the quantity stored
C12_Witness ==
    /\ req.op = "update"
    /\ resp.status = 400
    /\ req.inv_id \in DOMAIN invoices
    /\ resp.err[2] = Recredited(req.inv_id)[resp.err[1]]
    /\ resp.err[2] # products[resp.err[1]]

\* the invoice headers stored for year y
CountYear(inv, y) == Cardinality({i \in DOMAIN inv : inv[i].year = y})

\* n < 10000 written with four decimal digits
FourDigits(n) == <<(n \div 1000) % 10, (n \div 100) % 10, (n \div 10) % 10, n % 10>>

\* C13: a successful create stores and returns INV-<year>-<seq> with seq one more
\* than the number of headers stored for the current year, zero-padded to four
\* digits, so the first invoice of a year is 0001; a rejected create stores no
\* header; an update leaves the count of every year as it was.
C13_InvoiceNoAssignment ==
    [][now_year' = now_year
          => /\ (req'.op = "save" /\ resp'.status = 200)
                    => LET n == CountYear(invoices, now_year) + 1
                       IN  /\ resp'.invoice_no = <<now_year>> \o FourDigits(n)
                           /\ resp'.id \in DOMAIN invoices' \ DOMAIN invoices
                           /\ invoices'[resp'.id].invoice_no = resp'.invoice_no
                           /\ invoices'[resp'.id].year = now_year
                           /\ CountYear(invoices', now_year) = n
             /\ (req'.op = "save" /\ resp'.status = 400) => invoices' = invoices
             /\ req'.op = "update"
                    => \A y \in ThisYear..(ThisYear + MaxYears) :
                           CountYear(invoices', y) = CountYear(invoices, y)]_vars

\* the first invoice of a new year, numbered 0001 while an invoice of the year
\* before is stored
C13_Witness ==
    /\ req.op = "save"
    /\ resp.status = 200
    /\ resp.invoice_no = <<now_year, 0, 0, 0, 1>>
    /\ \E i \in DOMAIN invoices : invoices[i].year < now_year

\* C17: a successful update changes only the caller-supplied fields of the target
\* header and the target's item rows: the set of headers, the id counter, every
\* header's invoice_no and year, and every header and item row of the other
\* invoices stay as they were.
C17_UpdateKeepsIdentity ==
    [][(req'.op = "update" /\ resp'.status = 200 /\ now_year' = now_year)
          => /\ DOMAIN invoices' = DOMAIN invoices
             /\ invoices_seq' = invoices_seq
             /\ \A i \in DOMAIN invoices :
                    /\ invoices'[i].invoice_no = invoices[i].invoice_no
                    /\ invoices'[i].year = invoices[i].year
                    /\ i # req'.inv_id => invoices'[i] = invoices[i]
             /\ \A i \in InvIds \ {req'.inv_id} :
                    invoice_items'[i] = invoice_items[i]]_vars

\* a successful update, in a later year, of a stored invoice whose total differs
\* from that of another stored invoice that has item rows
C17_Witness ==
    /\ req.op = "update"
    /\ resp.status = 200
    /\ req.inv_id \in DOMAIN invoices
    /\ invoices[req.inv_id].year < now_year
    /\ \E j \in DOMAIN invoices :
           /\ j # req.inv_id
           /\ invoices[j].total # invoices[req.inv_id].total
           /\ invoice_items[j] # <<>>

\* C14: create followed by delete is a round trip. When an invoice is created and
\* then deleted, with any number of updates of it in between and no other request
\* changing a product's quantity in between, every product's quantity is what it
\* was before the create, and the header and all of its item rows are gone.
C14_CreateDeleteRoundTrip ==
    [][(req'.op = "delete" /\ req'.inv_id \in DOMAIN origin)
          => /\ products' = origin[req'.inv_id]
             /\ req'.inv_id \notin DOMAIN invoices'
             /\ invoice_items'[req'.inv_id] = <<>>]_vars

\* the stored rows of an invoice that named a product when they were stored
LiveRows(inv_id) ==
    [k \in 1..Len(invoice_items[inv_id]) |->
        IF dangling[inv_id][k] THEN [product_id |-> 0, qty |-> 0]
                               ELSE invoice_items[inv_id][k]]

\* C18: dangling product references are tolerated. A line whose product_id names
\* no existing product is not validated and is stored as an item row, and neither
\* its apply (create/update) nor its re-credit (update/delete) changes any product's
\* quantity: a request moves a product's quantity only by the rows and lines that
\* named a product when they were stored, so a re-credit for a deleted product never
\* reaches a later-created product.
C18_DanglingReferencesTolerated ==
    [][req'.op \in {"save", "update", "delete"}
          => LET ok  == resp'.status = 200
                 id  == IF req'.op = "save" THEN resp'.id ELSE req'.inv_id
             IN  /\ resp'.status = 400 => resp'.err[1] \in DOMAIN products
                 /\ (ok /\ req'.op # "delete")
                       => \A k \in 1..Len(req'.items) :
                              invoice_items'[id][Len(invoice_items'[id]) - Len(req'.items) + k]
                                  = ItemRows(req'.items)[k]
                 /\ DOMAIN products' = DOMAIN products
                 /\ \A p \in DOMAIN products :
                        products'[p] = products[p]
                            + (IF ok /\ req'.op # "save"
                               THEN SumQty(LiveRows(req'.inv_id), p) ELSE 0)
                            - (IF ok THEN RequestedQty(req'.items, p) ELSE 0)]_vars

\* C11: validation race between concurrent creates. The stock check and the stock
\* decrement of a create are separate statements with no lock held across them:
\* every create that committed had read, for each of its lines naming a product,
\* a quantity no less than the line's qty; and two creates of the same product can
\* both read the same quantity, both pass and both commit, leaving the committed
\* quantity below zero (C11_Witness).
C11_CommittedCreatePassedItsCheck ==
    \A c \in Conns :
        (conn[c].op = "save" /\ conn[c].status = 200)
            => /\ Len(conn[c].read) = Len(conn[c].items)
               /\ \A k \in 1..Len(conn[c].read) :
                      conn[c].read[k] # <<>>
                          => IntOr0(conn[c].items[k].qty) <= conn[c].read[k][1]

C11_Witness ==
    \E p \in ProductIds :
        /\ \A c \in Conns : /\ conn[c].op = "save" /\ conn[c].status = 200
                            /\ Len(conn[c].items) = 1
                            /\ IntOr0(conn[c].items[1].product_id) = p
                            /\ conn[c].read = <<<<initial[p]>>>>
                            /\ conn[c].invoice_id \in DOMAIN invoices
        /\ conn[1].invoice_id # conn[2].invoice_id
        /\ initial[p] >= IntOr0(conn[1].items[1].qty)
        /\ products[p] = initial[p] - IntOr0(conn[1].items[1].qty)
                                    - IntOr0(conn[2].items[1].qty)
        /\ products[p] < 0

\* C15: no double credit under concurrent reversal. With requests that reverse the
\* same invoice (deletes, updates) interleaved statement by statement and creates
\* running alone, each old item's qty is credited at most once, so in every
\* committed state each product's quantity is its initial quantity minus the qty
\* of the stored item rows that name it.
C15_NoDoubleCredit ==
    \A p \in ProductIds : products[p] = initial[p] - StoredQty(p, MaxInvId)

\* C16: a fault in the middle of the apply pass persists nothing. When a request
\* ends with an unhandled error after it has issued writes, the committed tables
\* are what they were before and its transaction is gone with the connection.
C16_FaultPersistsNothing ==
    [][\A c \in Conns :
           (conn[c].pc # "done" /\ conn'[c].pc = "done" /\ conn'[c].status = 500)
               => /\ tables' = tables
                  /\ txn'.owner # c]_vars

C16_Witness ==
    \E c \in Conns :
        /\ conn[c].op = "save" /\ conn[c].status = 500
        /\ conn[c].bad = 2 /\ conn[c].k = 2
        /\ conn[c].invoice_id # 0
        /\ conn[c].invoice_id \notin DOMAIN invoices
        /\ invoices_seq < conn[c].invoice_id
        /\ \A p \in ProductIds : products[p] = initial[p]

====
